---------------------------- MODULE Spec2Model ----------------------------
(***************************************************************************)
(* Model of src/app.py: the salary-slip application.  A workbook is        *)
(* uploaded, its sheets are normalised by clean_dataframe into the         *)
(* employee-info and salary tables of data_store, and the request          *)
(* handlers look employees up, search them, export their slips and mail    *)
(* them, recording one email-status entry per row position.                *)
(*                                                                         *)
(* Text is a sequence of one-character strings, so that the substring,     *)
(* prefix, strip and case operations of the code are computed rather than  *)
(* assumed.  Python's 0-based row positions are kept: position p is        *)
(* element p + 1 of a sequence.                                            *)
(***************************************************************************)
EXTENDS Integers, Sequences, FiniteSets, TLC

(***************************************************************************)
(* Text helpers (Python str operations used throughout app.py).            *)
(***************************************************************************)
Digits == <<"0", "1", "2", "3", "4", "5", "6", "7", "8", "9">>

IsDigitChar(c) == \E i \in 1..Len(Digits) : Digits[i] = c

DigitVal(c) == (CHOOSE i \in 1..Len(Digits) : Digits[i] = c) - 1

\* `sub in s`
Contains(s, sub) ==
    \E i \in 1..(Len(s) - Len(sub) + 1) :
        \A j \in 1..Len(sub) : s[i + j - 1] = sub[j]

\* s.startswith(pre)
StartsWith(s, pre) == Len(s) >= Len(pre) /\ \A j \in 1..Len(pre) : s[j] = pre[j]

\* The upper/lower pairs of the letters that occur in the modelled texts.  The
\* letter d-with-stroke (U+0111, U+0110) is written "d~", "D~": the TLA+ lexer
\* does not read that character.
CasePairs ==
    { <<"A", "a">>, <<"B", "b">>, <<"C", "c">>, <<"D", "d">>, <<"E", "e">>,
      <<"G", "g">>, <<"H", "h">>, <<"I", "i">>, <<"L", "l">>, <<"M", "m">>,
      <<"N", "n">>, <<"O", "o">>, <<"P", "p">>, <<"S", "s">>, <<"T", "t">>,
      <<"U", "u">>, <<"V", "v">>, <<"Z", "z">>, <<"Ư", "ư">>, <<"Ơ", "ơ">>,
      <<"Ô", "ô">>, <<"Ê", "ê">>, <<"Ọ", "ọ">>, <<"Â", "â">>, <<"Ế", "ế">>,
      <<"Ả", "ả">>, <<"Ộ", "ộ">>, <<"Í", "í">>, <<"Ổ", "ổ">>, <<"Ậ", "ậ">>,
      <<"D~", "d~">>, <<"À", "à">> }

LowerOf ==
    LET of(pairs) == [c \in {p[1] : p \in pairs} |-> (CHOOSE p \in pairs : p[1] = c)[2]]
    IN  of(CasePairs)

UpperOf ==
    LET of(pairs) == [c \in {p[2] : p \in pairs} |-> (CHOOSE p \in pairs : p[2] = c)[1]]
    IN  of(CasePairs)

LowerChar(c) == LET in(map) == IF c \in DOMAIN map THEN map[c] ELSE c IN in(LowerOf)

UpperChar(c) == LET in(map) == IF c \in DOMAIN map THEN map[c] ELSE c IN in(UpperOf)

\* s.lower() and s.upper()
lower(s) == [i \in 1..Len(s) |-> LowerChar(s[i])]

upper(s) == [i \in 1..Len(s) |-> UpperChar(s[i])]

RECURSIVE lstrip(_)
lstrip(s) == IF s # <<>> /\ s[1] = " " THEN lstrip(Tail(s)) ELSE s

RECURSIVE rstrip(_)
rstrip(s) ==
    IF s # <<>> /\ s[Len(s)] = " " THEN rstrip(SubSeq(s, 1, Len(s) - 1)) ELSE s

\* s.strip()
strip(s) == rstrip(lstrip(s))

\* v.replace('.', '')
RECURSIVE remove_dots(_)
remove_dots(s) ==
    IF s = <<>> THEN <<>>
    ELSE (IF s[1] = "." THEN <<>> ELSE <<s[1]>>) \o remove_dots(Tail(s))

\* s.isdigit()
isdigit(s) == s # <<>> /\ \A i \in 1..Len(s) : IsDigitChar(s[i])

RECURSIVE NatToStr(_)
NatToStr(n) ==
    IF n < 10 THEN <<Digits[n + 1]>>
    ELSE NatToStr(n \div 10) \o <<Digits[(n % 10) + 1]>>

\* str(n) of a Python int
IntToStr(n) == IF n < 0 THEN <<"-">> \o NatToStr(0 - n) ELSE NatToStr(n)

RECURSIVE StrToNat(_)
StrToNat(s) ==
    IF s = <<>> THEN 0
    ELSE 10 * StrToNat(SubSeq(s, 1, Len(s) - 1)) + DigitVal(s[Len(s)])

(***************************************************************************)
(* float(text), on the texts the model uses: an optional sign, digits and  *)
(* at most one decimal point.  FloatOk says whether float() returns,       *)
(* FloatNonZero whether its result is truthy, FloatWhole the whole part.   *)
(***************************************************************************)
Unsigned(s) == IF s # <<>> /\ s[1] = "-" THEN Tail(s) ELSE s

DotCount(s) == Cardinality({i \in 1..Len(s) : s[i] = "."})

FloatOk(t) ==
    LET decimal(s) == DotCount(s) <= 1 /\ isdigit(remove_dots(s))
    IN  decimal(Unsigned(strip(t)))

FloatNonZero(t) ==
    \E i \in 1..Len(t) : IsDigitChar(t[i]) /\ t[i] # "0"

WholePart(s) ==
    IF \E i \in 1..Len(s) : s[i] = "."
    THEN SubSeq(s, 1, (CHOOSE i \in 1..Len(s) : s[i] = ".") - 1)
    ELSE s

FloatWhole(t) ==
    LET whole(s) ==
            IF s # <<>> /\ s[1] = "-" THEN 0 - StrToNat(WholePart(Tail(s)))
            ELSE StrToNat(WholePart(s))
    IN  whole(strip(t))

(***************************************************************************)
(* Cells of a sheet as pandas reads them: an empty cell (NaN), a text, a   *)
(* number.  Field s is str(cell), n the number's value.                    *)
(***************************************************************************)
NaN == [t |-> "nan", s |-> <<"n", "a", "n">>, n |-> 0]

StrCell(s) == [t |-> "str", s |-> s, n |-> 0]

\* a Python int (a whole number in a column of mixed content)
IntCell(n) == [t |-> "num", s |-> IntToStr(n), n |-> n]

\* a whole number held as float64
FltCell(n) == [t |-> "num", s |-> IntToStr(n) \o <<".", "0">>, n |-> n]

\* pd.notna(v)
notna(v) == v.t # "nan"

(***************************************************************************)
(* A data frame: column labels (as str(label)) and rows of cells, one cell *)
(* per column position.  Labels may repeat; pandas then answers a label    *)
(* lookup with every column of that label.                                 *)
(***************************************************************************)
Frame(cols, rows) == [cols |-> cols, rows |-> rows]

\* pd.read_excel(..., header=None): the columns are labelled 0..w-1
read_excel(grid) ==
    Frame([j \in 1..(IF grid = <<>> THEN 0 ELSE Len(grid[1])) |-> IntToStr(j - 1)],
          grid)

\* the positions (1-based) of the columns labelled col
ColPositions(cols, col) == {j \in 1..Len(cols) : cols[j] = col}

\* a label that more than one column carries: row[col] is then a Series, and
\* every `if pd.notna(row[col])` / pd.to_numeric(df[col]) raises
IsDuplicated(cols, col) == Cardinality(ColPositions(cols, col)) > 1

\* row[col] for a label carried by exactly one column
CellAt(cols, row, col) == row[CHOOSE j \in 1..Len(cols) : cols[j] = col]

RECURSIVE SelectSeq2(_, _, _)
\* the elements of seq at the positions idx (a sequence of positions)
SelectSeq2(seq, idx, k) ==
    IF k > Len(idx) THEN <<>>
    ELSE <<seq[idx[k]]>> \o SelectSeq2(seq, idx, k + 1)

RECURSIVE KeptPositions(_, _, _)
\* df[cols_to_keep]: for each kept label in turn, every column carrying it
KeptPositions(cols, keep, k) ==
    IF k > Len(keep) THEN <<>>
    ELSE [i \in 1..Cardinality(ColPositions(cols, keep[k])) |->
               CHOOSE j \in ColPositions(cols, keep[k]) :
                 Cardinality({m \in ColPositions(cols, keep[k]) : m < j}) = i - 1]
         \o KeptPositions(cols, keep, k + 1)

(***************************************************************************)
(* clean_dataframe (src/app.py 149-292).  The two branches of the code are *)
(* the same text but for the header markers; HeaderScan is their shared    *)
(* body.                                                                   *)
(***************************************************************************)
HeaderScanRows == 5

\* the sheet-name tests of lines 151, 222, 847, 851
IsInfoSheet(sheet_name) ==
    LET named(low) ==
            \/ Contains(low, <<"t", "h", "ô", "n", "g", " ", "t", "i", "n">>)
            \/ Contains(low, <<"t", "h", "o", "n", "g", " ", "t", "i", "n">>)
    IN  named(lower(sheet_name))

IsSalarySheet(sheet_name) ==
    LET named(low) ==
            \/ Contains(low, <<"l", "ư", "ơ", "n", "g">>)
            \/ Contains(low, <<"l", "u", "o", "n", "g">>)
    IN  named(lower(sheet_name))

InfoMarkers == { <<"H", "ọ", " ", "t", "ê", "n">>, <<"S", "T", "T">> }

SalaryMarkers ==
    { <<"H", "Ọ", " ", "T", "Ê", "N">>, <<"H", "O", " ", "T", "E", "N">>,
      <<"N", "H", "Â", "N", " ", "V", "I", "Ê", "N">> }

\* 'marker' in str(row.values), upper-cased first on a salary sheet
RowHasMarker(row, markers, upcase) ==
    \E j \in 1..Len(row) : \E m \in markers :
        Contains(IF upcase THEN upper(row[j].s) ELSE row[j].s, m)

\* the header row (0-based) among the first 5 rows, or -1 for None
header_row(grid, markers, upcase) ==
    LET scanned == 0..((IF HeaderScanRows < Len(grid) THEN HeaderScanRows
                        ELSE Len(grid)) - 1)
        first(hits) == IF hits = {} THEN -1
                       ELSE CHOOSE i \in hits : \A k \in hits : i <= k
    IN  first({i \in scanned : RowHasMarker(grid[i + 1], markers, upcase)})

\* lines 168-180: the text a header cell contributes
header_text(cell) ==
    LET unless_number(raw) ==
            IF raw # <<>> /\ FloatOk(raw) /\ FloatNonZero(raw) THEN <<>> ELSE raw
    IN  unless_number(IF notna(cell)
                         /\ ~StartsWith(cell.s, <<"U", "n", "n", "a", "m", "e", "d">>)
                      THEN strip(cell.s) ELSE <<>>)

Dash == <<" ", "-", " ">>

ColPrefix == <<"_", "C", "o", "l", "_">>

RECURSIVE combined_headers(_, _, _, _)
\* lines 165-194, from column i (1-based) with the carried top-level text
combined_headers(main_headers, sub_headers, i, last_valid_main) ==
    IF i > Len(main_headers) THEN <<>>
    ELSE LET combined(main_str, sub_str, last) ==
                 IF sub_str # <<>> /\ main_str # <<>>
                 THEN main_str \o Dash \o sub_str
                 ELSE IF sub_str # <<>>
                 THEN (IF last # <<>> THEN last \o Dash \o sub_str ELSE sub_str)
                 ELSE IF main_str # <<>> THEN main_str
                 ELSE ColPrefix \o IntToStr(i - 1)
             merged(main_str, sub_str, last) ==
                 <<combined(main_str, sub_str, last)>>
                 \o combined_headers(main_headers, sub_headers, i + 1, last)
             carried(main_str, sub_str) ==
                 merged(main_str, sub_str,
                        IF main_str # <<>> THEN main_str ELSE last_valid_main)
         IN  carried(header_text(main_headers[i]), header_text(sub_headers[i]))

\* lines 196-201: the first data row (0-based)
data_start(grid, h) ==
    LET start == h + 2
    IN  IF start < Len(grid)
        THEN LET check_row == grid[start + 1]
                 head == SubSeq(check_row, 1,
                                IF Len(check_row) < 3 THEN Len(check_row) ELSE 3)
                 all_digits(first_vals) ==
                 /\ first_vals # <<>>
                 /\ \A k \in 1..Len(first_vals) :
                        isdigit(remove_dots(first_vals[k].s))
             IN  IF all_digits(SelectSeq(head, notna)) THEN start + 1 ELSE start
        ELSE start

\* lines 161-204: the frame with its header rows cut off and its columns named
with_headers(df, h) ==
    IF h = -1 THEN df
    ELSE LET grid == df.rows
             main_headers == grid[h + 1]
             sub_headers == IF h + 1 < Len(grid) THEN grid[h + 2]
                            ELSE [j \in 1..Len(main_headers) |-> NaN]
             start == data_start(grid, h)
         IN  Frame(combined_headers(main_headers, sub_headers, 1, <<>>),
                   SubSeq(grid, start + 1, Len(grid)))

\* lines 206-207: cols_to_keep and df[cols_to_keep]
keep_columns(df) ==
    LET cols_to_keep == SelectSeq(df.cols, LAMBDA c : ~StartsWith(c, <<"_">>))
        at(pos) == Frame(SelectSeq2(df.cols, pos, 1),
                         [r \in 1..Len(df.rows) |-> SelectSeq2(df.rows[r], pos, 1)])
    IN  at(KeptPositions(df.cols, cols_to_keep, 1))

\* line 208: df.dropna(how='all')
dropna_all(df) ==
    Frame(df.cols,
          SelectSeq(df.rows, LAMBDA row : \E j \in 1..Len(row) : notna(row[j])))

\* lines 210-214: the first column whose upper-cased label contains 'STT', as a
\* position, or 0 for None
stt_col(df) ==
    LET first(hits) == IF hits = {} THEN 0 ELSE CHOOSE j \in hits : \A k \in hits : j <= k
    IN  first({j \in 1..Len(df.cols) : Contains(upper(df.cols[j]), <<"S", "T", "T">>)})

\* pd.to_numeric(v, errors='coerce') succeeds on v
IsNumeric(v) == v.t = "num" \/ (v.t = "str" /\ FloatOk(v.s))

NumericValue(v) == IF v.t = "num" THEN v.n ELSE FloatWhole(v.s)

\* the filter with the threshold at 0 instead of 1
filter_stt_from_zero(df, j) ==
    LET whole(v) == (v.t = "num" \/ (v.t = "str" /\ FloatOk(v.s)))
                    /\ ~Contains(v.s, <<".">>)
        number(n, as_int) == IF as_int THEN IntCell(n) ELSE FltCell(n)
        coerced(v, as_int) == IF ~IsNumeric(v) THEN NaN
                              ELSE number(NumericValue(v), as_int)
        rows(as_int) == [r \in 1..Len(df.rows) |->
                           [df.rows[r] EXCEPT ![j] = coerced(df.rows[r][j], as_int)]]
    IN  Frame(df.cols,
              SelectSeq(rows(\A r \in 1..Len(df.rows) : whole(df.rows[r][j])),
                        LAMBDA row : notna(row[j]) /\ row[j].n >= 0))

\* lines 216-218: the identifier column coerced to numbers, the rows without a
\* number >= 1 there dropped.  The column is int64 when every value was a whole
\* number and float64 otherwise.
filter_stt(df, j) ==
    LET whole(v) == (v.t = "num" \/ (v.t = "str" /\ FloatOk(v.s)))
                    /\ ~Contains(v.s, <<".">>)
        number(n, as_int) == IF as_int THEN IntCell(n) ELSE FltCell(n)
        coerced(v, as_int) == IF ~IsNumeric(v) THEN NaN
                              ELSE number(NumericValue(v), as_int)
        rows(as_int) == [r \in 1..Len(df.rows) |->
                           [df.rows[r] EXCEPT ![j] = coerced(df.rows[r][j], as_int)]]
    IN  Frame(df.cols,
              SelectSeq(rows(\A r \in 1..Len(df.rows) : whole(df.rows[r][j])),
                        LAMBDA row : notna(row[j]) /\ row[j].n >= 1))

\* One branch of clean_dataframe.  The result says whether the code raised
\* (pd.to_numeric of a duplicated identifier label) and carries the frame.
normalize(df, markers, upcase) ==
    LET filtered(kept, j) ==
            IF j = 0 THEN [raised |-> FALSE, df |-> kept]
            ELSE IF IsDuplicated(kept.cols, kept.cols[j])
            THEN [raised |-> TRUE, df |-> kept]
            ELSE [raised |-> FALSE, df |-> filter_stt(kept, j)]
        numbered(kept) == filtered(kept, stt_col(kept))
        named == with_headers(df, header_row(df.rows, markers, upcase))
    IN  numbered(dropna_all(keep_columns(named)))

clean_dataframe(df, sheet_name) ==
    IF IsInfoSheet(sheet_name) THEN normalize(df, InfoMarkers, FALSE)
    ELSE IF IsSalarySheet(sheet_name) THEN normalize(df, SalaryMarkers, TRUE)
    ELSE [raised |-> FALSE, df |-> df]

(***************************************************************************)
(* The workbooks an operator uploads.  A: an employee-info sheet of three  *)
(* employees (the second without an email) and a salary sheet with a       *)
(* two-row header.  B: an employee-info sheet only (the second email has   *)
(* no "@").  C: no sheet with a recognised name.  D: an employee-info      *)
(* sheet in which two header cells carry the same text.  E: an             *)
(* employee-info sheet without a header marker in its rows, whose columns  *)
(* keep the labels 0, 1 of read_excel.                                     *)
(***************************************************************************)
InfoGridA ==
    << << StrCell(<<"S", "T", "T">>), StrCell(<<"H", "o", " ", "t", "e", "n">>),
          StrCell(<<"E", "m", "a", "i", "l">>), NaN >>,
       <<NaN, NaN, NaN, NaN>>,
       <<IntCell(1), StrCell(<<"A", "n">>), StrCell(<<"a", "@", "x">>), NaN>>,
       <<IntCell(2), StrCell(<<" ", "B", "a", " ">>), NaN, NaN>>,
       <<IntCell(3), StrCell(<<"C", "u">>), StrCell(<<"c", "@", "x">>), NaN>> >>

SalaryGridA ==
    << << StrCell(<<"H", "o", " ", "t", "e", "n">>),
          StrCell(<<"L", "ư", "ơ", "n", "g", " ", "c", "ơ", " ", "b", "ả", "n">>),
          StrCell(<<"T", "ổ", "n", "g", " ", "t", "h", "u", " ", "n", "h", "ậ", "p", " ", "t", "h", "u", "ế", " ", "T", "N", "C", "N">>),
          StrCell(<<"N", "L", "D", " ", "p", "h", "ả", "i", " ", "n", "ộ", "p">>),
          StrCell(<<"P", "h", "í", " ", "d~", "o", "à", "n", " ", "v", "i", "ê", "n">>),
          StrCell(<<"T", "h", "u", "ế", " ", "T", "N", "C", "N", " ", "p", "h", "ả", "i", " ", "n", "ộ", "p">>) >>,
       <<NaN, NaN, NaN, StrCell(<<"T", "ổ", "n", "g", " ", "c", "ộ", "n", "g">>), NaN, NaN>>,
       << StrCell(<<"a", "n">>), IntCell(4000000), IntCell(5000000), IntCell(1000000),
          IntCell(50000), IntCell(200000) >>,
       <<StrCell(<<"b", "a">>), IntCell(3), IntCell(9), IntCell(2), IntCell(1), IntCell(4)>> >>

InfoGridB ==
    << << StrCell(<<"S", "T", "T">>), StrCell(<<"H", "o", " ", "t", "e", "n">>),
          StrCell(<<"E", "m", "a", "i", "l">>) >>,
       <<NaN, NaN, NaN>>,
       <<IntCell(1), StrCell(<<"D", "i">>), StrCell(<<"d", "@", "x">>)>>,
       <<IntCell(2), StrCell(<<"A", "n">>), StrCell(<<"a", "x">>)>> >>

OtherGrid ==
    << <<StrCell(<<"a">>), IntCell(1)>> >>

InfoGridD ==
    << << StrCell(<<"H", "ọ", " ", "t", "ê", "n">>), StrCell(<<"E", "m", "a", "i", "l">>),
          StrCell(<<"G", "h", "i", " ", "c", "h", "u">>),
          StrCell(<<"G", "h", "i", " ", "c", "h", "u">>) >>,
       <<NaN, NaN, NaN, NaN>>,
       <<StrCell(<<"E", "m">>), StrCell(<<"e", "@", "x">>), StrCell(<<"u">>), StrCell(<<"v">>)>>,
       <<StrCell(<<"P", "h">>), NaN, StrCell(<<"w">>), NaN>> >>

InfoGridE ==
    << <<StrCell(<<"T", "e", "n">>), StrCell(<<"E", "m", "a", "i", "l">>)>>,
       <<StrCell(<<"A", "n">>), StrCell(<<"a", "@", "x">>)>> >>

Sheet(name, grid) == [name |-> name, grid |-> grid]

InfoName == <<"T", "h", "o", "n", "g", " ", "t", "i", "n">>

SalaryName == <<"L", "u", "o", "n", "g">>

OtherName == <<"S", "h", "e", "e", "t", "1">>

WorkbookSheets ==
    [ A |-> <<Sheet(InfoName, InfoGridA), Sheet(SalaryName, SalaryGridA)>>,
      B |-> <<Sheet(InfoName, InfoGridB)>>,
      C |-> <<Sheet(OtherName, OtherGrid)>>,
      D |-> <<Sheet(InfoName, InfoGridD)>>,
      E |-> <<Sheet(InfoName, InfoGridE)>> ]

Workbooks == DOMAIN WorkbookSheets

(***************************************************************************)
(* Column classifier (src/app.py 98-110, 295-333).                         *)
(***************************************************************************)
\* is_valid_column without the float() test of lines 105-109
is_valid_column_keeping_numbers(col_name) ==
    LET valid(col_str) ==
            /\ ~StartsWith(col_str, <<"U", "n", "n", "a", "m", "e", "d">>)
            /\ ~StartsWith(col_str, <<"C", "o", "l", "_">>)
            /\ ~StartsWith(col_str, <<"_">>)
            /\ col_str # <<"n", "a", "n">>
            /\ col_str # <<"N", "a", "N">>
            /\ col_str # <<>>
    IN  valid(strip(col_name))

\* is_valid_column(col_name)
is_valid_column(col_name) ==
    LET valid(col_str) ==
            /\ ~StartsWith(col_str, <<"U", "n", "n", "a", "m", "e", "d">>)
            /\ ~StartsWith(col_str, <<"C", "o", "l", "_">>)
            /\ ~StartsWith(col_str, <<"_">>)
            /\ col_str # <<"n", "a", "n">>
            /\ col_str # <<"N", "a", "N">>
            /\ col_str # <<>>
            /\ ~FloatOk(col_str)
    IN  valid(strip(col_name))

\* the first column (as a position, 0 for None) whose lowered label contains
\* one of the keywords
FirstColumnWith(df, keywords) ==
    LET first(hits) == IF hits = {} THEN 0 ELSE CHOOSE j \in hits : \A k \in hits : j <= k
    IN  first({j \in 1..Len(df.cols) :
                  \E k \in keywords : Contains(lower(df.cols[j]), k)})

\* find_column_by_keywords(df, keywords) (lines 113-120) on the column labels:
\* the columns are walked in table order and, for each, the keywords in list
\* order; the answer is the position of the column returned, 0 for None
find_column_by_keywords(columns, keywords) ==
    LET first(hits) == IF hits = {} THEN 0 ELSE CHOOSE j \in hits : \A k \in hits : j <= k
    IN  first({j \in 1..Len(columns) :
                  \E k \in 1..Len(keywords) :
                      Contains(lower(columns[j]), lower(keywords[k]))})

NameKeywords ==
    { <<"h", "ọ", " ", "t", "ê", "n">>, <<"h", "o", " ", "t", "e", "n">>,
      <<"t", "ê", "n", " ", "n", "h", "â", "n", " ", "v", "i", "ê", "n">> }

EmailKeywords == { <<"e", "m", "a", "i", "l">>, <<"m", "a", "i", "l">>, <<"e", "-", "m", "a", "i", "l">> }

find_employee_name_column(df) == FirstColumnWith(df, NameKeywords)

find_employee_email_column(df) == FirstColumnWith(df, EmailKeywords)

\* pd.notna(email) and '@' in str(email)
IsValidEmail(v) == notna(v) /\ Contains(v.s, <<"@">>)

\* the columns of df that is_valid_column accepts, in order
valid_columns(df) == SelectSeq(df.cols, is_valid_column)

\* get_employees_list(df): raised when row[name_col] or row[email_col] is a
\* Series (a duplicated label) where the code takes its truth value
get_employees_list(df) ==
    LET has_name(row, name_col) ==
            notna(row[name_col]) /\ strip(row[name_col].s) # <<>>
        entry(p, row, name_col, email_col) ==
            IF email_col # 0 /\ IsValidEmail(row[email_col])
            THEN [index |-> p, name |-> strip(row[name_col].s),
                  email |-> strip(row[email_col].s)]
            ELSE [index |-> p, name |-> strip(row[name_col].s)]
        listed(named, name_col, email_col) ==
            IF email_col # 0 /\ IsDuplicated(df.cols, df.cols[email_col])
               /\ named # <<>>
            THEN [raised |-> TRUE, list |-> <<>>]
            ELSE [raised |-> FALSE,
                  list |-> [i \in 1..Len(named) |->
                               entry(named[i], df.rows[named[i] + 1],
                                     name_col, email_col)]]
        employees(name_col, email_col) ==
            IF name_col = 0 THEN [raised |-> FALSE, list |-> <<>>]
            ELSE IF df.rows # <<>> /\ IsDuplicated(df.cols, df.cols[name_col])
            THEN [raised |-> TRUE, list |-> <<>>]
            ELSE listed(SelectSeq([i \in 1..Len(df.rows) |-> i - 1],
                                  LAMBDA p : has_name(df.rows[p + 1], name_col)),
                        name_col, email_col)
    IN  employees(find_employee_name_column(df), find_employee_email_column(df))

(***************************************************************************)
(* The program's state.                                                    *)
(*   data_store    the global store of lines 42-49                         *)
(*   EMAIL_CONFIG  the sender credentials of lines 52-57 ("" is unset)     *)
(*   resp          the response to the last request                        *)
(***************************************************************************)
VARIABLES data_store, EMAIL_CONFIG, resp

vars == <<data_store, EMAIL_CONFIG, resp>>

None == [some |-> FALSE, cols |-> <<>>, rows |-> <<>>]

Some(df) == [some |-> TRUE, cols |-> df.cols, rows |-> df.rows]

\* resp is the response on its way to the client; Idle when the server waits
\* for the next request
Idle == [op |-> "idle"]

\* data_store as lines 42-49 build it
EmptyStore ==
    [thong_tin |-> None, luong |-> None,
     columns_thong_tin |-> <<>>, columns_luong |-> <<>>,
     employees_list |-> <<>>, email_status |-> <<>>]

Init ==
    /\ data_store = EmptyStore
    /\ EMAIL_CONFIG = [sender_email |-> "", sender_password |-> ""]
    /\ resp = Idle

(***************************************************************************)
(* upload_file (src/app.py 826-869).                                       *)
(***************************************************************************)
Files == {"absent", "empty_name", "not_excel", "corrupt", "excel"}

RECURSIVE read_sheets(_, _, _)
\* lines 843-853, from sheet k on: the store after the loop, or as it stood
\* when a sheet raised
read_sheets(store, sheets, k) ==
    IF k > Len(sheets) THEN [raised |-> FALSE, store |-> store]
    ELSE LET sheet_name == sheets[k].name
             listed(with_table, employees) ==
                 IF employees.raised
                 THEN [raised |-> TRUE, store |-> with_table]
                 ELSE read_sheets([with_table EXCEPT
                                      !.employees_list = employees.list],
                                  sheets, k + 1)
             stored(df_cleaned) ==
                 IF IsInfoSheet(sheet_name)
                 THEN listed([store EXCEPT
                                 !.thong_tin = Some(df_cleaned),
                                 !.columns_thong_tin = valid_columns(df_cleaned)],
                             get_employees_list(df_cleaned))
                 ELSE IF IsSalarySheet(sheet_name)
                 THEN read_sheets([store EXCEPT
                                      !.luong = Some(df_cleaned),
                                      !.columns_luong = valid_columns(df_cleaned)],
                                  sheets, k + 1)
                 ELSE read_sheets(store, sheets, k + 1)
             read(cleaned) ==
                 IF cleaned.raised THEN [raised |-> TRUE, store |-> store]
                 ELSE stored(cleaned.df)
         IN  read(clean_dataframe(read_excel(sheets[k].grid), sheet_name))

\* an upload that would leave the email-status map as it was
keep_status(store) == store

\* line 856: data_store['email_status'] = {}
reset_status(store) == [store EXCEPT !.email_status = <<>>]

\* the store and the response of upload_file
upload_file(store, file, wb) ==
    IF file = "absent"
    THEN [store |-> store,
          resp |-> [op |-> "upload", http |-> 200, success |-> FALSE,
                    error |-> "Khong tim thay file"]]
    ELSE IF file = "empty_name"
    THEN [store |-> store,
          resp |-> [op |-> "upload", http |-> 200, success |-> FALSE,
                    error |-> "Chua chon file"]]
    ELSE IF file = "not_excel"
    THEN [store |-> store,
          resp |-> [op |-> "upload", http |-> 200, success |-> FALSE,
                    error |-> "Chi ho tro file Excel (.xlsx, .xls)"]]
    ELSE IF file = "corrupt"
    THEN [store |-> store,
          resp |-> [op |-> "upload", http |-> 200, success |-> FALSE,
                    error |-> "Loi xu ly file"]]
    ELSE LET done(reset) ==
                 [store |-> reset,
                  resp |-> [op |-> "upload", http |-> 200, success |-> TRUE,
                            columns_info |-> reset.columns_thong_tin,
                            columns_luong |-> reset.columns_luong,
                            employees_list |-> reset.employees_list,
                            total_employees |-> Len(reset.employees_list)]]
             after(read) ==
                 IF read.raised
                 THEN [store |-> read.store,
                       resp |-> [op |-> "upload", http |-> 200, success |-> FALSE,
                                 error |-> "Loi xu ly file"]]
                 ELSE done(reset_status(read.store))
         IN  after(read_sheets(store, WorkbookSheets[wb], 1))

Upload(file, wb) ==
    /\ resp = Idle
    /\ \E out \in {upload_file(data_store, file, wb)} :
           /\ data_store' = out.store
           /\ resp' = [request |-> [file |-> file, wb |-> wb]] @@ out.resp
    /\ UNCHANGED EMAIL_CONFIG

(***************************************************************************)
(* get_employee (src/app.py 872-922) and search_employee (925-993).        *)
(***************************************************************************)
\* Python's None, where a response field holds a record or None
PyNone == [none |-> TRUE]

\* data_store['email_status'].get(p)
status_get(store, p) ==
    IF p \in DOMAIN store.email_status THEN store.email_status[p] ELSE PyNone

\* the key/value pairs of the valid columns of row whose value is not NaN
\* (lines 900-904, 913-917)
row_info(df, row) ==
    LET pairs(shown) == [i \in 1..Len(shown) |-> <<df.cols[shown[i]], row[shown[i]].s>>]
    IN  pairs(SelectSeq([j \in 1..Len(df.cols) |-> j],
                        LAMBDA j : is_valid_column(df.cols[j]) /\ notna(row[j])))

\* some column that is_valid_column accepts carries a duplicated label
HasDuplicatedValidColumn(df) ==
    \E j \in 1..Len(df.cols) :
        is_valid_column(df.cols[j]) /\ IsDuplicated(df.cols, df.cols[j])

\* lines 910, 426: the first salary row (1-based, 0 for none) whose name, as
\* text, lowered and stripped, equals the employee's
salary_match(df_luong, luong_name_col, employee_name) ==
    LET first(hits) == IF hits = {} THEN 0 ELSE CHOOSE r \in hits : \A k \in hits : r <= k
        matching(wanted) ==
            first({r \in 1..Len(df_luong.rows) :
                      strip(lower(df_luong.rows[r][luong_name_col].s)) = wanted})
    IN  matching(strip(lower(employee_name.s)))

\* lines 888-917 (and 956-985): the record returned for row position p.
\* raised: a label lookup met a duplicated label where the code needs a scalar.
employee_data(store, p) ==
    LET df_info == store.thong_tin
        df_luong == store.luong
        employee == df_info.rows[p + 1]
        email(email_col) ==
            IF email_col # 0 /\ IsValidEmail(employee[email_col])
            THEN strip(employee[email_col].s) ELSE <<>>
        joined(name_col, email_col, luong_name_col, joins, match) ==
            IF \/ email_col # 0 /\ IsDuplicated(df_info.cols, df_info.cols[email_col])
               \/ HasDuplicatedValidColumn(df_info)
               \/ joins /\ IsDuplicated(df_info.cols, df_info.cols[name_col])
               \/ joins /\ notna(employee[name_col])
                  /\ IsDuplicated(df_luong.cols, df_luong.cols[luong_name_col])
               \/ match # 0 /\ HasDuplicatedValidColumn(df_luong)
            THEN [raised |-> TRUE]
            ELSE IF match # 0
            THEN [raised |-> FALSE,
                  data |-> [index |-> p, info |-> row_info(df_info, employee),
                            email |-> email(email_col),
                            email_status |-> status_get(store, p),
                            salary |-> row_info(df_luong, df_luong.rows[match])]]
            ELSE [raised |-> FALSE,
                  data |-> [index |-> p, info |-> row_info(df_info, employee),
                            email |-> email(email_col),
                            email_status |-> status_get(store, p)]]
        matched(name_col, email_col, luong_name_col, joins) ==
            joined(name_col, email_col, luong_name_col, joins,
                   IF joins /\ notna(employee[name_col])
                   THEN salary_match(df_luong, luong_name_col, employee[name_col])
                   ELSE 0)
        found(name_col, email_col, luong_name_col) ==
            matched(name_col, email_col, luong_name_col,
                    df_luong.some /\ name_col # 0 /\ luong_name_col # 0)
    IN  found(find_employee_name_column(df_info),
              find_employee_email_column(df_info),
              find_employee_name_column(df_luong))

\* an exception no handler catches: Flask answers 500
ServerError(op) == [op |-> op, http |-> 500]

Failure(op, error) == [op |-> op, http |-> 200, success |-> FALSE, error |-> error]

\* the response of get_employee(employee_index); the route's int converter
\* admits non-negative positions only
get_employee(store, employee_index) ==
    IF ~store.thong_tin.some THEN Failure("get_employee", "Chua upload du lieu")
    ELSE IF employee_index >= Len(store.thong_tin.rows)
    THEN Failure("get_employee", "Khong tim thay nhan vien")
    ELSE LET answer(found) ==
                 IF found.raised THEN ServerError("get_employee")
                 ELSE [op |-> "get_employee", http |-> 200, success |-> TRUE,
                       result |-> found.data]
         IN  answer(employee_data(store, employee_index))

GetEmployee(employee_index) ==
    /\ resp = Idle
    /\ resp' = [request |-> employee_index] @@ get_employee(data_store, employee_index)
    /\ UNCHANGED <<data_store, EMAIL_CONFIG>>

(***************************************************************************)
(* Series.str.contains(pat, na=False) reads pat as a regular expression.   *)
(* On the patterns modelled: a letter, digit, space or "@" stands for      *)
(* itself, "." for any character, and a pattern with an unclosed or        *)
(* unopened parenthesis does not compile (re.error).                       *)
(***************************************************************************)
CountOf(s, c) == Cardinality({i \in 1..Len(s) : s[i] = c})

re_error(pat) == CountOf(pat, "(") # CountOf(pat, ")")

re_search(pat, text) ==
    \E i \in 1..(Len(text) - Len(pat) + 1) :
        \A k \in 1..Len(pat) : pat[k] = "." \/ pat[k] = text[i + k - 1]

\* the response of search_employee for the request's search_term
search_employee(store, search_term_raw) ==
    LET df_info == store.thong_tin
        \* df_info[col].astype(str).str.lower().str.contains(pat, na=False)
        mask(r, pat, searched) ==
            \E j \in searched : re_search(pat, lower(df_info.rows[r][j].s))
        answer(found) ==
            IF \E i \in 1..Len(found) : found[i].raised
            THEN ServerError("search")
            ELSE [op |-> "search", http |-> 200, success |-> TRUE,
                  results |-> [i \in 1..Len(found) |-> found[i].data],
                  count |-> Len(found)]
        collected(results) ==
            IF results = <<>>
            THEN Failure("search", "Khong tim thay ket qua")
            ELSE answer([i \in 1..Len(results) |-> employee_data(store, results[i])])
        matched(pat, searched) ==
            IF searched # {} /\ (re_error(pat) \/ HasDuplicatedValidColumn(df_info))
            THEN ServerError("search")
            ELSE collected(SelectSeq([i \in 1..Len(df_info.rows) |-> i - 1],
                                     LAMBDA p : mask(p + 1, pat, searched)))
        searching(search_term) ==
            IF search_term = <<>>
            THEN Failure("search", "Vui long nhap tu khoa tim kiem")
            ELSE matched(lower(search_term),
                         {j \in 1..Len(df_info.cols) : is_valid_column(df_info.cols[j])})
    IN  IF ~df_info.some
        THEN Failure("search", "Chua upload du lieu. Vui long upload file Excel truoc.")
        ELSE searching(strip(search_term_raw))

Search(search_term) ==
    /\ resp = Idle
    /\ resp' = [request |-> search_term] @@ search_employee(data_store, search_term)
    /\ UNCHANGED <<data_store, EMAIL_CONFIG>>

(***************************************************************************)
(* Salary slip calculator (src/app.py 336-407).                            *)
(***************************************************************************)
\* float(val), or 0 where float() raises (lines 376-379)
num_val(v) == IF IsNumeric(v) THEN NumericValue(v) ELSE 0

Has(col_lower, keyword) == Contains(col_lower, keyword)

RECURSIVE info_fields(_, _, _, _)
\* lines 356-368, from column j on
info_fields(cols, row, j, data) ==
    IF j > Len(cols) THEN data
    ELSE LET
           val == row[j]
           read(col_lower) ==
             LET
             account ==
                 IF Has(col_lower, <<"s", "ố", " ", "t", "à", "i", " ", "k", "h", "o", "ả", "n">>)
                    /\ Has(col_lower, <<"n", "g", "â", "n", " ", "h", "à", "n", "g">>)
                 THEN val.s
                 ELSE IF Has(col_lower, <<"s", "ố", " ", "t", "à", "i", " ", "k", "h", "o", "ả", "n">>)
                         /\ data.so_tai_khoan = <<>>
                 THEN val.s ELSE data.so_tai_khoan
             bank ==
                 IF Has(col_lower, <<"t", "ạ", "i", " ", "n", "g", "â", "n", " ", "h", "à", "n", "g">>)
                    \/ (Has(col_lower, <<"n", "g", "â", "n", " ", "h", "à", "n", "g">>)
                        /\ Has(col_lower, <<"c", "h", "i", " ", "n", "h", "á", "n", "h">>))
                 THEN val.s
                 ELSE IF Has(col_lower, <<"n", "g", "â", "n", " ", "h", "à", "n", "g">>)
                         /\ ~Has(col_lower, <<"s", "ố">>)
                         /\ data.ten_ngan_hang = <<>>
                 THEN val.s ELSE data.ten_ngan_hang
             IN  IF notna(val)
                 THEN [data EXCEPT !.so_tai_khoan = account,
                                   !.ten_ngan_hang = bank]
                 ELSE data
         IN  info_fields(cols, row, j + 1, read(lower(cols[j])))

RECURSIVE salary_fields(_, _, _, _)
\* lines 371-401, from column j on
salary_fields(cols, row, j, data) ==
    IF j > Len(cols) THEN data
    ELSE LET
           val == row[j]
           read(col_lower, n) ==
             LET
             income ==
                 /\ Has(col_lower, <<"t", "h", "u", "ế", " ", "t", "n", "c", "n">>)
                 /\ Has(col_lower, <<"t", "ổ", "n", "g", " ", "t", "h", "u", " ", "n", "h", "ậ", "p">>)
                 /\ ~Has(col_lower, <<"c", "h", "ư", "a">>)
                 /\ ~Has(col_lower, <<"c", "h", "ị", "u">>)
                 /\ ~Has(col_lower, <<"t", "í", "n", "h">>)
                 /\ ~Has(col_lower, <<"b", "a", "o", " ", "g", "ồ", "m">>)
             base == Has(col_lower, <<"l", "ư", "ơ", "n", "g", " ", "c", "ơ", " ", "b", "ả", "n">>)
             social ==
                 \/ (Has(col_lower, <<"n", "g", "ư", "ờ", "i", " ", "l", "a", "o", " ", "d~", "ộ", "n", "g", " ", "p", "h", "ả", "i", " ", "n", "ộ", "p">>)
                     /\ Has(col_lower, <<"t", "ổ", "n", "g", " ", "c", "ộ", "n", "g">>))
                 \/ (Has(col_lower, <<"n", "l", "d", " ", "p", "h", "ả", "i", " ", "n", "ộ", "p">>)
                     /\ Has(col_lower, <<"t", "ổ", "n", "g", " ", "c", "ộ", "n", "g">>))
             union ==
                 \/ (Has(col_lower, <<"k", "i", "n", "h", " ", "p", "h", "í", " ", "c", "ô", "n", "g", " ", "d~", "o", "à", "n">>)
                     /\ Has(col_lower, <<"p", "h", "í", " ", "d~", "o", "à", "n", " ", "v", "i", "ê", "n">>))
                 \/ (Has(col_lower, <<"p", "h", "í", " ", "d~", "o", "à", "n", " ", "v", "i", "ê", "n">>)
                     /\ data.doan_phi = 0)
             tax ==
                 /\ Has(col_lower, <<"t", "h", "u", "ế", " ", "t", "n", "c", "n", " ", "p", "h", "ả", "i", " ", "n", "ộ", "p">>)
                 /\ ~Has(col_lower, <<"t", "r">>)
                 /\ ~Has(col_lower, <<"%">>)
             IN  IF notna(val)
                 THEN [data EXCEPT
                         !.luong_thoa_thuan = IF income THEN n ELSE @,
                         !.luong_thuc_te = IF income THEN n ELSE @,
                         !.luong_dong = IF base THEN n ELSE @,
                         !.bhxh = IF social THEN n ELSE @,
                         !.doan_phi = IF union THEN n ELSE @,
                         !.thue_tncn = IF tax THEN n ELSE @]
                 ELSE data
         IN  salary_fields(cols, row, j + 1, read(lower(cols[j]), num_val(val)))

\* totals whose deductions leave the tax out
slip_totals_without_tax(data) ==
    LET tong_khoan_tru == data.bhxh + data.doan_phi
        tong_thu_nhap == data.luong_thuc_te
    IN  [ho_ten |-> data.ho_ten, luong_thoa_thuan |-> data.luong_thoa_thuan,
         luong_dong |-> data.luong_dong, so_tai_khoan |-> data.so_tai_khoan,
         ten_ngan_hang |-> data.ten_ngan_hang, luong_thuc_te |-> data.luong_thuc_te,
         bhxh |-> data.bhxh, doan_phi |-> data.doan_phi, thue_tncn |-> data.thue_tncn,
         tong_khoan_tru |-> tong_khoan_tru,
         tong_thu_nhap |-> tong_thu_nhap,
         luong_thuc_nhan |-> tong_thu_nhap - tong_khoan_tru]

\* lines 403-405: the three derived totals
slip_totals(data) ==
    LET tong_khoan_tru == data.bhxh + data.doan_phi + data.thue_tncn
        tong_thu_nhap == data.luong_thuc_te
    IN  [ho_ten |-> data.ho_ten, luong_thoa_thuan |-> data.luong_thoa_thuan,
         luong_dong |-> data.luong_dong, so_tai_khoan |-> data.so_tai_khoan,
         ten_ngan_hang |-> data.ten_ngan_hang, luong_thuc_te |-> data.luong_thuc_te,
         bhxh |-> data.bhxh, doan_phi |-> data.doan_phi, thue_tncn |-> data.thue_tncn,
         tong_khoan_tru |-> tong_khoan_tru,
         tong_thu_nhap |-> tong_thu_nhap,
         luong_thuc_nhan |-> tong_thu_nhap - tong_khoan_tru]

\* get_salary_slip_data(employee_info, salary_data, df_info, df_luong), for
\* frames without duplicated labels; salary_row is 0 for None
get_salary_slip_data(employee_info, salary_row, df_info, df_luong) ==
    LET defaults(name_col) ==
            [ho_ten |-> IF name_col # 0 /\ notna(employee_info[name_col])
                        THEN employee_info[name_col].s ELSE <<>>,
             luong_thoa_thuan |-> 0, luong_dong |-> 0,
             so_tai_khoan |-> <<>>, ten_ngan_hang |-> <<>>,
             luong_thuc_te |-> 0, bhxh |-> 0, doan_phi |-> 0,
             thue_tncn |-> 0]
        with_salary(with_info) ==
            IF salary_row = 0 THEN with_info
            ELSE salary_fields(df_luong.cols, df_luong.rows[salary_row], 1, with_info)
    IN  slip_totals(with_salary(info_fields(df_info.cols, employee_info, 1,
                                            defaults(find_employee_name_column(df_info)))))

(***************************************************************************)
(* Document generation (src/app.py 410-430 and 598-605, 608-628 and        *)
(* 767-773).  The spreadsheet and PDF layout calls are taken to succeed;   *)
(* the document is represented by the slip it shows.                       *)
(***************************************************************************)
HasDuplicatedColumn(df) == \E j \in 1..Len(df.cols) : IsDuplicated(df.cols, df.cols[j])

\* the characters str.isalnum() rejects, among those of the modelled texts
NotAlnum == {" ", "@", ".", "-", "_", "(", ")", "%", ":", "/"}

\* lines 602, 770: the name with only alphanumerics, spaces and underscores
safe_name(name) ==
    strip(SelectSeq(name, LAMBDA c : c \notin NotAlnum \/ c = " " \/ c = "_"))

Extension(file_type) ==
    IF file_type = "excel" THEN <<".", "x", "l", "s", "x">> ELSE <<".", "p", "d", "f">>

\* df_info.iloc[i]: the row (1-based) a Python position selects, 0 when
\* iloc raises IndexError
iloc(df, i) ==
    IF 0 <= i /\ i < Len(df.rows) THEN i + 1
    ELSE IF i < 0 /\ 0 - i <= Len(df.rows) THEN Len(df.rows) + i + 1
    ELSE 0

\* lines 418-420: the employee's name as the generators read it
slip_employee_name(df_info, employee_index) ==
    LET name(name_col) ==
            IF name_col # 0 THEN df_info.rows[iloc(df_info, employee_index)][name_col].s
            ELSE <<"N", "h", "a", "n", "V", "i", "e", "n", "_">> \o IntToStr(employee_index)
    IN  name(find_employee_name_column(df_info))

\* lines 422-428: the salary row joined to the employee (1-based, 0 for None)
slip_salary_row(df_info, df_luong, employee_index) ==
    LET joined(name_col, luong_name_col) ==
            IF df_luong.some /\ name_col # 0 /\ luong_name_col # 0
            THEN salary_match(df_luong, luong_name_col,
                              df_info.rows[iloc(df_info, employee_index)][name_col])
            ELSE 0
    IN  joined(find_employee_name_column(df_info), find_employee_name_column(df_luong))

\* generate_excel_salary_slip / generate_pdf_salary_slip, as far as its callers
\* branch on it: (None, None), an exception, or a document
slip_made(store, employee_index) ==
    LET df_info == store.thong_tin
        df_luong == store.luong
        raised(name_col, luong_name_col) ==
            \/ iloc(df_info, employee_index) = 0
            \/ HasDuplicatedColumn(df_info)
            \/ /\ df_luong.some /\ name_col # 0 /\ luong_name_col # 0
               /\ IsDuplicated(df_luong.cols, df_luong.cols[luong_name_col])
            \/ /\ HasDuplicatedColumn(df_luong)
               /\ slip_salary_row(df_info, df_luong, employee_index) # 0
        outcome(failed) == [raised |-> failed, file_data |-> ~failed]
    IN  IF employee_index >= Len(df_info.rows)
        THEN [raised |-> FALSE, file_data |-> FALSE]
        ELSE outcome(raised(find_employee_name_column(df_info),
                            find_employee_name_column(df_luong)))

\* lines 430: the slip the document shows
slip_data(store, employee_index) ==
    LET df_info == store.thong_tin
        df_luong == store.luong
    IN  get_salary_slip_data(df_info.rows[iloc(df_info, employee_index)],
                             slip_salary_row(df_info, df_luong, employee_index),
                             df_info, df_luong)

\* lines 602-603, 770-771: the document's file name
slip_filename(store, employee_index, month, year, file_type) ==
    <<"P", "h", "i", "e", "u", "L", "u", "o", "n", "g", "_">>
    \o safe_name(slip_employee_name(store.thong_tin, employee_index))
    \o <<"_", "T", "h", "a", "n", "g">> \o IntToStr(month) \o <<"_">>
    \o IntToStr(year) \o Extension(file_type)

\* generate_excel_salary_slip / generate_pdf_salary_slip: the outcome and, for
\* a document, its slip and file name
generate_salary_slip(store, employee_index, month, year, file_type) ==
    LET document(made) ==
            IF ~made.file_data THEN made
            ELSE [raised |-> FALSE, file_data |-> TRUE,
                  slip |-> slip_data(store, employee_index),
                  filename |-> slip_filename(store, employee_index, month, year,
                                             file_type)]
    IN  document(slip_made(store, employee_index))

(***************************************************************************)
(* export_excel / export_pdf (src/app.py 996-1049), export_bulk            *)
(* (1052-1098).                                                            *)
(***************************************************************************)
export_single(store, employee_index, month, year, file_type) ==
    IF ~store.thong_tin.some THEN Failure("export", "Khong co du lieu")
    ELSE LET answer(made) ==
                 IF made.raised THEN Failure("export", "exception")
                 ELSE IF ~made.file_data
                 THEN Failure("export", "Khong tim thay nhan vien")
                 ELSE [op |-> "export", http |-> 200, success |-> TRUE,
                       filename |-> made.filename, slip |-> made.slip]
         IN  answer(generate_salary_slip(store, employee_index, month, year, file_type))

\* `indices == 'all' or not indices`: every row position
AllOr(indices, df_info) ==
    IF indices = <<>> THEN [i \in 1..Len(df_info.rows) |-> i - 1] ELSE indices

RECURSIVE zip_entries(_, _, _, _, _, _)
\* lines 1075-1083, from list element k on: the entries written, in order
zip_entries(store, indices, k, month, year, file_type) ==
    IF k > Len(indices) THEN [raised |-> FALSE, entries |-> <<>>]
    ELSE LET idx == indices[k]
             written(made, rest) ==
                 IF idx >= Len(store.thong_tin.rows) THEN rest
                 ELSE IF made.raised THEN [raised |-> TRUE, entries |-> <<>>]
                 ELSE IF rest.raised THEN rest
                 ELSE [raised |-> FALSE,
                       entries |-> <<[index |-> idx,
                                      filename |-> slip_filename(store, idx, month,
                                                                 year, file_type)]>>
                                   \o rest.entries]
         IN  written(slip_made(store, idx),
                     zip_entries(store, indices, k + 1, month, year, file_type))

export_bulk(store, indices, month, year, file_type) ==
    IF ~store.thong_tin.some THEN Failure("export_bulk", "Khong co du lieu")
    ELSE LET answer(zip) ==
                 IF zip.raised THEN Failure("export_bulk", "exception")
                 ELSE [op |-> "export_bulk", http |-> 200, success |-> TRUE,
                       entries |-> zip.entries]
         IN  answer(zip_entries(store, AllOr(indices, store.thong_tin), 1,
                                month, year, file_type))

(***************************************************************************)
(* Notifier: send_email_with_attachment (src/app.py 776-803), send_email   *)
(* (1101-1178), send_email_bulk (1181-1281), configure_email (1293-1319).  *)
(***************************************************************************)
\* accepted: whether the SMTP exchange of lines 795-799 goes through
send_email_with_attachment(cfg, accepted) ==
    IF cfg.sender_email = "" \/ cfg.sender_password = ""
    THEN [success |-> FALSE, message |-> "Chua cau hinh email gui"]
    ELSE IF accepted
    THEN [success |-> TRUE, message |-> "Email da gui thanh cong!"]
    ELSE [success |-> FALSE, message |-> "Loi gui email"]

\* the entry of lines 1155-1162 and 1257-1262
full_status(sent, clock, month, year) ==
    [sent |-> TRUE, success |-> sent.success, message |-> sent.message,
     time |-> clock, month |-> month, year |-> year]

\* the entry of lines 1172-1177, 1213-1217 and 1224-1228
short_status(message, clock) ==
    [sent |-> TRUE, success |-> FALSE, message |-> message, time |-> clock]

\* d[key] = value
dict_set(d, key, value) ==
    [k \in DOMAIN d \cup {key} |-> IF k = key THEN value ELSE d[k]]

record_status(store, key, status) ==
    [store EXCEPT !.email_status = dict_set(store.email_status, key, status)]

\* send_email(employee_index): the store and the response.  body is "json" or
\* "malformed" (request.get_json() raises, or returns no dict).
send_email(store, cfg, clock, employee_index, body, month, year, file_type, accepted) ==
    LET df_info == store.thong_tin
        employee == df_info.rows[employee_index + 1]
        caught == [store |-> record_status(store, employee_index,
                                           short_status("exception", clock)),
                   resp |-> Failure("send_email", "exception")]
        quiet(error) == [store |-> store, resp |-> Failure("send_email", error)]
        recorded(sent, status) ==
            [store |-> record_status(store, employee_index, status),
             resp |-> [op |-> "send_email", http |-> 200,
                       success |-> sent.success, message |-> sent.message,
                       email_status |-> status]]
        mailed(sent) == recorded(sent, full_status(sent, clock, month, year))
        attached(made) ==
            IF made.raised THEN caught
            ELSE IF ~made.file_data THEN quiet("Khong the tao phieu luong")
            ELSE mailed(send_email_with_attachment(cfg, accepted))
        addressed(email_col) ==
            IF email_col = 0 THEN quiet("Khong tim thay cot email trong du lieu")
            ELSE IF IsDuplicated(df_info.cols, df_info.cols[email_col]) THEN caught
            ELSE IF ~IsValidEmail(employee[email_col])
            THEN quiet("Email nhan vien khong hop le")
            ELSE attached(slip_made(store, employee_index))
    IN  IF ~df_info.some THEN quiet("Khong co du lieu")
        ELSE IF body = "malformed" THEN caught
        ELSE IF employee_index >= Len(df_info.rows)
        THEN quiet("Khong tim thay nhan vien")
        ELSE addressed(find_employee_email_column(df_info))

RECURSIVE bulk_loop(_, _, _, _, _)
\* lines 1203-1269, from list element k on.  acc carries the store, the
\* per-row results and the two counters; req the request, its surroundings
\* and the email column, which line 1207 finds anew for each row.
bulk_loop(acc, indices, k, req, df_info) ==
    IF k > Len(indices) THEN acc
    ELSE LET idx == indices[k]
             r == iloc(df_info, idx)
             employee == df_info.rows[r]
             email_col == req.email_col
             failed(message, store) ==
                 [acc EXCEPT !.store = store,
                             !.fail_count = @ + 1,
                             !.results = Append(@, [index |-> idx, success |-> FALSE,
                                                    message |-> message])]
             skipped(message) ==
                 failed(message,
                        record_status(acc.store, idx, short_status(message, req.clock)))
             done(sent) ==
                 [acc EXCEPT !.store = record_status(acc.store, idx,
                                 full_status(sent, req.clock, req.month, req.year)),
                             !.success_count = IF sent.success THEN @ + 1 ELSE @,
                             !.fail_count = IF sent.success THEN @ ELSE @ + 1,
                             !.results = Append(@, [index |-> idx,
                                                    success |-> sent.success,
                                                    message |-> sent.message])]
             mailed(to_email) ==
                 done(send_email_with_attachment(req.cfg, to_email \notin req.rejected))
             \* the accumulator after this row, or the accumulator with raised
             \* set when the row's exception leaves the loop
             row(made) ==
                 IF r = 0 THEN [acc EXCEPT !.raised = TRUE]
                 ELSE IF email_col = 0 THEN skipped("Khong co email")
                 ELSE IF IsDuplicated(df_info.cols, df_info.cols[email_col])
                 THEN [acc EXCEPT !.raised = TRUE]
                 ELSE IF ~IsValidEmail(employee[email_col])
                 THEN skipped("Email khong hop le")
                 ELSE IF made.raised THEN [acc EXCEPT !.raised = TRUE]
                 ELSE IF ~made.file_data THEN failed("Khong the tao file", acc.store)
                 ELSE mailed(strip(employee[email_col].s))
             continue(after) ==
                 IF after.raised THEN after
                 ELSE bulk_loop(after, indices, k + 1, req, df_info)
         IN  IF idx >= Len(df_info.rows)
             THEN bulk_loop(acc, indices, k + 1, req, df_info)
             ELSE continue(row(slip_made(acc.store, idx)))

\* send_email_bulk: the store and the response.  rejected: the addresses whose
\* message the SMTP exchange refuses.
send_email_bulk(store, cfg, clock, body, indices, month, year, file_type, rejected) ==
    LET df_info == store.thong_tin
        req == [cfg |-> cfg, clock |-> clock, month |-> month, year |-> year,
                file_type |-> file_type, rejected |-> rejected,
                email_col |-> find_employee_email_column(df_info)]
        start == [raised |-> FALSE, store |-> store, results |-> <<>>,
                  success_count |-> 0, fail_count |-> 0]
        answer(end) ==
            IF end.raised
            THEN [store |-> end.store, resp |-> Failure("send_email_bulk", "exception")]
            ELSE [store |-> end.store,
                  resp |-> [op |-> "send_email_bulk", http |-> 200, success |-> TRUE,
                            results |-> end.results,
                            success_count |-> end.success_count,
                            fail_count |-> end.fail_count]]
    IN  IF ~df_info.some
        THEN [store |-> store, resp |-> Failure("send_email_bulk", "Khong co du lieu")]
        ELSE IF body = "malformed"
        THEN [store |-> store, resp |-> Failure("send_email_bulk", "exception")]
        ELSE answer(bulk_loop(start, AllOr(indices, df_info), 1, req, df_info))

\* configure_email with the two sender fields of the request
configure_email(cfg, sender_email, sender_password) ==
    [cfg EXCEPT !.sender_email = sender_email, !.sender_password = sender_password]

(***************************************************************************)
(* Requests: the inputs each handler is driven with.                       *)
(***************************************************************************)
\* row positions asked for run over 0..MaxPos; the largest sample table has
\* three rows, so MaxPos is out of its range
MaxPos == 3

\* longest explicit list of a bulk request (the empty list stands for "all")
MaxBulk == 2

\* datetime.now() as the requests read it: no handler compares two
\* timestamps, so one reading stands for them all
Clock == {0}

\* a request with a malformed body is sent for the first position and for
\* one past every table
MalformedPositions == {0, MaxPos}

Positions == 0..MaxPos

RECURSIVE SeqsUpTo(_, _)
SeqsUpTo(S, n) ==
    IF n = 0 THEN {<<>>}
    ELSE LET shorter == SeqsUpTo(S, n - 1)
         IN  shorter \cup {Append(s, x) : s \in {t \in shorter : Len(t) = n - 1}, x \in S}

BulkLists == SeqsUpTo(Positions, MaxBulk)

Months == {6}

Years == {2024}

FileTypes == {"excel", "pdf"}

\* a send attaches the same slip in either type; the requests ask for this one
SentTypes == {"pdf"}

SearchTerms == {<<>>, <<" ">>, <<"a", "n">>, <<"z", "z">>, <<".">>, <<"(">>}

\* the sender settings a configure_email request carries
Senders == {[sender_email |-> "", sender_password |-> ""],
            [sender_email |-> "hr@x", sender_password |-> "pw"]}

\* the addresses of the loaded table, which the SMTP exchange may refuse
Addresses(store) ==
    LET df == store.thong_tin
        of(email_col) ==
            IF ~df.some \/ email_col = 0 THEN {}
            ELSE {strip(df.rows[r][email_col].s) : r \in 1..Len(df.rows)}
    IN  of(find_employee_email_column(df))

(***************************************************************************)
(* Actions: one per request handler, and the passing of time.              *)
(***************************************************************************)
ExportSingle(employee_index, month, year, file_type) ==
    /\ resp = Idle
    /\ resp' = [request |-> employee_index]
               @@ export_single(data_store, employee_index, month, year, file_type)
    /\ UNCHANGED <<data_store, EMAIL_CONFIG>>

ExportBulk(indices, month, year, file_type) ==
    /\ resp = Idle
    /\ resp' = [request |-> indices]
               @@ export_bulk(data_store, indices, month, year, file_type)
    /\ UNCHANGED <<data_store, EMAIL_CONFIG>>

SendEmail(employee_index, body, month, year, file_type, accepted, clock) ==
    /\ resp = Idle
    /\ \E out \in {send_email(data_store, EMAIL_CONFIG, clock, employee_index, body,
                              month, year, file_type, accepted)} :
           /\ data_store' = out.store
           /\ resp' = [request |-> employee_index] @@ out.resp
    /\ UNCHANGED EMAIL_CONFIG

SendEmailBulk(body, indices, month, year, file_type, rejected, clock) ==
    /\ resp = Idle
    /\ \E out \in {send_email_bulk(data_store, EMAIL_CONFIG, clock, body, indices,
                                   month, year, file_type, rejected)} :
           /\ data_store' = out.store
           /\ resp' = [request |-> [body |-> body, indices |-> indices,
                                     rejected |-> rejected]] @@ out.resp
    /\ UNCHANGED EMAIL_CONFIG

\* get_email_status (src/app.py 1284-1290)
GetEmailStatus ==
    /\ resp = Idle
    /\ resp' = [op |-> "email_status", http |-> 200, success |-> TRUE,
                email_status |-> data_store.email_status]
    /\ UNCHANGED <<data_store, EMAIL_CONFIG>>

ConfigureEmail(sender) ==
    /\ resp = Idle
    /\ EMAIL_CONFIG' = configure_email(EMAIL_CONFIG, sender.sender_email,
                                       sender.sender_password)
    /\ resp' = [op |-> "configure_email", http |-> 200, success |-> TRUE,
                has_password |-> sender.sender_password # ""]
    /\ UNCHANGED data_store

\* the response reaches the client and the server takes the next request
Reply ==
    /\ resp # Idle
    /\ resp' = Idle
    /\ UNCHANGED <<data_store, EMAIL_CONFIG>>

Next ==
    \/ \E wb \in Workbooks : Upload("excel", wb)
    \/ \E file \in Files \ {"excel"} : Upload(file, "C")
    \/ \E employee_index \in Positions : GetEmployee(employee_index)
    \/ \E search_term \in SearchTerms : Search(search_term)
    \/ \E employee_index \in Positions, month \in Months, year \in Years,
          file_type \in FileTypes :
            ExportSingle(employee_index, month, year, file_type)
    \/ \E indices \in BulkLists, month \in Months, year \in Years,
          file_type \in FileTypes :
            ExportBulk(indices, month, year, file_type)
    \/ \E employee_index \in Positions, month \in Months, year \in Years,
          file_type \in SentTypes, accepted \in BOOLEAN, clock \in Clock :
            SendEmail(employee_index, "json", month, year, file_type, accepted, clock)
    \/ \E employee_index \in MalformedPositions, clock \in Clock :
            SendEmail(employee_index, "malformed", 0, 0, "pdf", TRUE, clock)
    \/ \E indices \in BulkLists, month \in Months, year \in Years,
          file_type \in SentTypes, rejected \in SUBSET Addresses(data_store),
          clock \in Clock :
            SendEmailBulk("json", indices, month, year, file_type, rejected, clock)
    \/ \E clock \in Clock : SendEmailBulk("malformed", <<>>, 0, 0, "pdf", {}, clock)
    \/ GetEmailStatus
    \/ \E sender \in Senders : ConfigureEmail(sender)
    \/ Reply

Spec == Init /\ [][Next]_vars

(***************************************************************************)
(* The slip calculator on drawn amounts: get_salary_slip_data applied to   *)
(* the first employee of the sample and a salary record whose four amount  *)
(* cells are drawn from AmountCells.                                       *)
(***************************************************************************)
SlipInfo == clean_dataframe(read_excel(InfoGridA), InfoName).df

SlipSalary == clean_dataframe(read_excel(SalaryGridA), SalaryName).df

\* an empty cell, a text that is no number, and whole amounts
AmountCells ==
    {NaN, StrCell(<<"x">>), IntCell(50000), IntCell(200000), IntCell(1000000),
     IntCell(5000000)}

Calculate(actual, social, union, tax) ==
    LET slip_of(df_info, salary_data) ==
            [op |-> "slip", request |-> salary_data,
             slip |-> get_salary_slip_data(df_info.rows[1], 1, df_info,
                                           Frame(SlipSalary.cols, <<salary_data>>))]
    IN  /\ resp = Idle
        /\ resp' = slip_of(SlipInfo, <<StrCell(<<"a", "n">>), IntCell(4000000),
                                       actual, social, union, tax>>)
        /\ UNCHANGED <<data_store, EMAIL_CONFIG>>

SlipNext ==
    \/ \E actual \in AmountCells, social \in AmountCells, union \in AmountCells,
          tax \in AmountCells :
            Calculate(actual, social, union, tax)
    \/ Reply

SlipSpec == Init /\ [][SlipNext]_vars

(***************************************************************************)
(* format_number (src/app.py 136-146).  The value is None or a number held  *)
(* in quarters: [q |-> n] is n/4, which float() represents exactly.         *)
(***************************************************************************)
Quarter(n) == [q |-> n]

\* f"{n:,}".replace(",", ".") of a whole number given by its digits
Grouped(digits) ==
    LET from[i \in 0..Len(digits)] ==
            IF i = 0 THEN <<>>
            ELSE from[i - 1]
                 \o (IF i > 1 /\ (Len(digits) - i + 1) % 3 = 0 THEN <<".">> ELSE <<>>)
                 \o <<digits[i]>>
    IN  from[Len(digits)]

\* the magnitude of f"{num:.0f}": the nearest whole number, a half going to the
\* even neighbour
RoundHalfEven(quarters) ==
    LET nearest(whole, rest) ==
            IF rest < 2 THEN whole
            ELSE IF rest > 2 THEN whole + 1
            ELSE IF whole % 2 = 0 THEN whole ELSE whole + 1
    IN  nearest(quarters \div 4, quarters % 4)

format_number(val) ==
    LET signed(q, digits) == (IF q < 0 THEN <<"-">> ELSE <<>>) \o Grouped(digits)
        formatted(q, magnitude) ==
            IF magnitude % 4 = 0 THEN signed(q, NatToStr(magnitude \div 4))
            ELSE signed(q, NatToStr(RoundHalfEven(magnitude)))
    IN  IF val = PyNone THEN <<>>
        ELSE IF val.q = 0 THEN <<>>
        ELSE formatted(val.q, IF val.q < 0 THEN 0 - val.q ELSE val.q)

(***************************************************************************)
(* The pure functions on drawn inputs: each action applies one function of *)
(* src/app.py to inputs drawn from a small set and answers its result.     *)
(***************************************************************************)
\* name cells: empty, two spellings of one name, the text "nan", another name
NameCells ==
    {NaN, StrCell(<<" ", "A", "n", " ">>), StrCell(<<"a", "n">>),
     StrCell(<<"n", "a", "n">>), StrCell(<<"B", "a">>)}

\* the join of lines 422-428 (export) and 906-917 (lookup) for an info table
\* of one employee and a salary table of two rows
Join(employee_name, first_name, second_name) ==
    LET joined(df_info, df_luong) ==
            [op |-> "join",
             request |-> [df_info |-> df_info, df_luong |-> df_luong],
             export |-> slip_salary_row(df_info, df_luong, 0),
             lookup |-> employee_data([EmptyStore EXCEPT !.thong_tin = df_info,
                                                         !.luong = df_luong], 0)]
    IN  /\ resp = Idle
        /\ resp' = joined(Some(Frame(<< <<"H", "o", " ", "t", "e", "n">> >>,
                                     << <<employee_name>> >>)),
                          Some(Frame(<< <<"H", "o", " ", "t", "e", "n">>,
                                        <<"L", "ư", "ơ", "n", "g">> >>,
                                     << <<first_name, IntCell(1)>>,
                                        <<second_name, IntCell(2)>> >>)))
        /\ UNCHANGED <<data_store, EMAIL_CONFIG>>

\* identifier cells: whole numbers, a text that is no number, an empty cell
IdCells == {IntCell(0), IntCell(1), IntCell(2), IntCell(3), StrCell(<<"x">>), NaN}

\* rows of the sheet whose identifiers are drawn
IdRows == 5

\* clean_dataframe on an employee-info sheet with the header "STT", "Ho ten",
\* an empty sub-header row and IdRows data rows: row i holds the identifier
\* ids[i] and the name "r" followed by the letter of i
FilterRows(ids) ==
    LET letters == <<"a", "b", "c", "d", "e", "f", "g">>
        grid == << <<StrCell(<<"S", "T", "T">>), StrCell(<<"H", "o", " ", "t", "e", "n">>)>>,
                   <<NaN, NaN>> >>
                \o [i \in 1..Len(ids) |-> <<ids[i], StrCell(<<"r", letters[i]>>)>>]
    IN  /\ resp = Idle
        /\ resp' = [op |-> "filter", request |-> ids,
                    result |-> clean_dataframe(read_excel(grid), InfoName)]
        /\ UNCHANGED <<data_store, EMAIL_CONFIG>>

\* the cells of a header row (empty, a text, the numbers 0 and 7, a text with
\* the placeholder prefix) and of the row below it (empty, two texts, the
\* number 0)
MainHeaderCells ==
    {NaN, StrCell(<<"L", "ư", "ơ", "n", "g">>), IntCell(0), IntCell(7),
     StrCell(<<"U", "n", "n", "a", "m", "e", "d", ":", " ", "1">>)}

SubHeaderCells ==
    {NaN, StrCell(<<"C", "ơ", " ", "b", "ả", "n">>),
     StrCell(<<"P", "h", "ụ", " ", "c", "ấ", "p">>), IntCell(0)}

HeaderWidth == 3

\* lines 162-194 on a drawn header row and the row below it
MergeHeaders(main_headers, sub_headers) ==
    /\ resp = Idle
    /\ resp' = [op |-> "merge",
                request |-> [main_headers |-> main_headers, sub_headers |-> sub_headers],
                result |-> combined_headers(main_headers, sub_headers, 1, <<>>)]
    /\ UNCHANGED <<data_store, EMAIL_CONFIG>>

\* values put to format_number: None, 0, whole numbers, and numbers with a
\* fractional part of a quarter, a half and three quarters
FormatValues ==
    {PyNone, Quarter(0), Quarter(4 * 7), Quarter(4 * 999), Quarter(4 * 1000),
     Quarter(4 * 1234567), Quarter(0 - 4 * 1234), Quarter(2), Quarter(4 * 1234 + 1),
     Quarter(4 * 1234 + 2), Quarter(4 * 1234 + 3), Quarter(4 * 1235 + 2)}

FormatNumber(val) ==
    /\ resp = Idle
    /\ resp' = [op |-> "format", request |-> val, result |-> format_number(val)]
    /\ UNCHANGED <<data_store, EMAIL_CONFIG>>

\* column labels and keyword lists put to find_column_by_keywords
ColumnLabels ==
    {<<"T", "e", "n">>, <<"E", "m", "a", "i", "l">>, <<"S", "T", "T">>,
     <<"T", "e", "n", " ", "e", "m", "a", "i", "l">>}

KeywordLists ==
    { << <<"e", "m", "a", "i", "l">>, <<"t", "e", "n">> >>,
      << <<"t", "e", "n">>, <<"e", "m", "a", "i", "l">> >>,
      << <<"l", "u", "o", "n", "g">>, <<"s", "t", "t">> >>,
      << <<"l", "u", "o", "n", "g">> >> }

TableWidth == 2

FindColumn(columns, keywords) ==
    /\ resp = Idle
    /\ resp' = [op |-> "find", request |-> [columns |-> columns, keywords |-> keywords],
                result |-> find_column_by_keywords(columns, keywords)]
    /\ UNCHANGED <<data_store, EMAIL_CONFIG>>

\* the cells of two salary columns that both satisfy the base-salary rule
BaseCells == {NaN, StrCell(<<"x">>), IntCell(50000), IntCell(200000)}

\* get_salary_slip_data on a salary record with the columns "Ho ten",
\* "Lương cơ bản" and "Lương cơ bản mới"
CalculateBase(first_base, second_base) ==
    LET slip_of(df_info, cols, salary_data) ==
            [op |-> "base", request |-> salary_data,
             slip |-> get_salary_slip_data(df_info.rows[1], 1, df_info,
                                           Frame(cols, <<salary_data>>))]
    IN  /\ resp = Idle
        /\ resp' = slip_of(SlipInfo,
                           << <<"H", "o", " ", "t", "e", "n">>,
                              <<"L", "ư", "ơ", "n", "g", " ", "c", "ơ", " ", "b", "ả", "n">>,
                              <<"L", "ư", "ơ", "n", "g", " ", "c", "ơ", " ", "b", "ả", "n", " ", "m", "ớ", "i">> >>,
                           <<StrCell(<<"a", "n">>), first_base, second_base>>)
        /\ UNCHANGED <<data_store, EMAIL_CONFIG>>

\* the cells of the row two below the header row: empty, a whole number, a
\* number held as float64, a text
CheckCells == {NaN, IntCell(1), FltCell(2), StrCell(<<"x">>)}

CheckWidth == 4

\* lines 196-201 on a sheet whose header row is row 0 and whose row 2 is drawn
DataStart(check_row) ==
    LET started(grid) ==
            [op |-> "start", request |-> check_row, result |-> data_start(grid, 0)]
    IN  /\ resp = Idle
        /\ resp' = started(<< [j \in 1..CheckWidth |->
                                  IF j = 1 THEN StrCell(<<"H", "ọ", " ", "t", "ê", "n">>)
                                  ELSE StrCell(<<"c", Digits[j]>>)],
                              [j \in 1..CheckWidth |-> NaN],
                              check_row,
                              [j \in 1..CheckWidth |-> StrCell(<<"v">>)] >>)
        /\ UNCHANGED <<data_store, EMAIL_CONFIG>>

\* rows of a sheet without a header marker: entirely empty, half empty, text
RawRows ==
    { <<NaN, NaN>>, <<IntCell(1), NaN>>, <<StrCell(<<"a">>), StrCell(<<"b">>)>> }

RawHeight == 3

\* clean_dataframe on a sheet with a recognised name and no header marker
NoHeader(sheet_name, grid) ==
    /\ resp = Idle
    /\ resp' = [op |-> "raw", request |-> grid,
                result |-> clean_dataframe(read_excel(grid), sheet_name)]
    /\ UNCHANGED <<data_store, EMAIL_CONFIG>>

\* export_bulk of the positions 0 and 1 of a directory of two employees with
\* the drawn names
ArchiveOfTwo(first_name, second_name) ==
    LET archived(df_info) ==
            [op |-> "archive", request |-> <<first_name, second_name>>,
             result |-> export_bulk([EmptyStore EXCEPT !.thong_tin = df_info],
                                    <<0, 1>>, 6, 2024, "excel")]
    IN  /\ resp = Idle
        /\ resp' = archived(Some(Frame(<< <<"H", "o", " ", "t", "e", "n">> >>,
                                       << <<first_name>>, <<second_name>> >>)))
        /\ UNCHANGED <<data_store, EMAIL_CONFIG>>

PureNext ==
    \/ /\ resp = Idle
       /\ \E employee_name \in NameCells, first_name \in NameCells,
             second_name \in NameCells :
               Join(employee_name, first_name, second_name)
    \/ /\ resp = Idle
       /\ \E ids \in [1..IdRows -> IdCells] : FilterRows(ids)
    \/ /\ resp = Idle
       /\ \E main_headers \in [1..HeaderWidth -> MainHeaderCells],
             sub_headers \in [1..HeaderWidth -> SubHeaderCells] :
               MergeHeaders(main_headers, sub_headers)
    \/ /\ resp = Idle
       /\ \E val \in FormatValues : FormatNumber(val)
    \/ /\ resp = Idle
       /\ \E columns \in [1..TableWidth -> ColumnLabels], keywords \in KeywordLists :
               FindColumn(columns, keywords)
    \/ /\ resp = Idle
       /\ \E first_base \in BaseCells, second_base \in BaseCells :
               CalculateBase(first_base, second_base)
    \/ /\ resp = Idle
       /\ \E check_row \in [1..CheckWidth -> CheckCells] : DataStart(check_row)
    \/ /\ resp = Idle
       /\ \E sheet_name \in {InfoName, SalaryName}, grid \in [1..RawHeight -> RawRows] :
               NoHeader(sheet_name, grid)
    \/ /\ resp = Idle
       /\ \E first_name, second_name \in
                {StrCell(<<"A", "n">>), StrCell(<<"A", ".", "n">>), StrCell(<<"B", "a">>)} :
               ArchiveOfTwo(first_name, second_name)
    \/ Reply

PureSpec == Init /\ [][PureNext]_vars

(***************************************************************************)
(* Properties.                                                             *)
(***************************************************************************)
Loaded == data_store.thong_tin.some

Rows == Len(data_store.thong_tin.rows)

\* a structured answer with the success flag set, or cleared
Succeeded(r) == r.http = 200 /\ r.success

Failed(r) == r.http = 200 /\ ~r.success

HasInfoSheet(wb) ==
    \E k \in DOMAIN WorkbookSheets[wb] : IsInfoSheet(WorkbookSheets[wb][k].name)

\* the store a workbook yields when nothing was uploaded before it
AloneStore(wb) == read_sheets(EmptyStore, WorkbookSheets[wb], 1).store

\* C1: after an upload that reports success, both tables and the email-status
\* map are those of the workbook just uploaded alone: nothing of an earlier
\* upload survives, and a workbook without a salary sheet leaves no salary table.
C1_UploadReplacesDirectory ==
    (resp.op = "upload" /\ Succeeded(resp)) =>
        LET alone == AloneStore(resp.request.wb)
        IN  /\ data_store.thong_tin = alone.thong_tin
            /\ data_store.luong = alone.luong
            /\ data_store.email_status = <<>>

\* the positions a bulk request lists, "all" spelled out
Listed(request, df_info) ==
    LET indices == AllOr(request.indices, df_info)
    IN  {indices[i] : i \in 1..Len(indices)}

\* C2: an upload that reports success leaves the email-status map empty; an
\* entry for a position appears only by a send for that position; and a
\* lookup of a position that has no entry returns no email status.
C2_StatusResetOnUpload ==
    [][ /\ (resp'.op = "upload" /\ Succeeded(resp'))
            => data_store'.email_status = <<>>
        /\ \A p \in DOMAIN data_store'.email_status :
              (resp'.op # "upload" /\ p \notin DOMAIN data_store.email_status)
                  => \/ resp'.op = "send_email" /\ resp'.request = p
                     \/ /\ resp'.op = "send_email_bulk"
                        /\ p \in Listed(resp'.request, data_store.thong_tin)
        /\ (/\ resp'.op = "get_employee" /\ Succeeded(resp')
            /\ resp'.request \notin DOMAIN data_store.email_status)
            => resp'.result.email_status = PyNone
      ]_vars

\* a lookup answers "no email status" for one position while another
\* position, sent to since the upload, has its entry
C2_Witness ==
    /\ resp.op = "get_employee" /\ Succeeded(resp)
    /\ resp.result.email_status = PyNone
    /\ data_store.email_status # <<>>

\* C3: an upload of a workbook with no sheet named after the employee-info
\* keywords is answered with a structured failure, never with success.
C3_MissingInfoSheetFails ==
    (resp.op = "upload" /\ resp.request.file = "excel"
     /\ ~HasInfoSheet(resp.request.wb))
        => Failed(resp)

NoDataError == "Chua upload du lieu. Vui long upload file Excel truoc."

NoResultsError == "Khong tim thay ket qua"

\* some row holds the term in a searched column, read as literal text or as
\* a pattern
MatchesSomeRow(term) ==
    LET df_info == data_store.thong_tin
        pat == lower(strip(term))
    IN  \E r \in 1..Len(df_info.rows), j \in 1..Len(df_info.cols) :
            /\ is_valid_column(df_info.cols[j])
            /\ \/ Contains(lower(df_info.rows[r][j].s), pat)
               \/ ~re_error(pat) /\ re_search(pat, lower(df_info.rows[r][j].s))

\* C4: a search before any table is loaded fails with the "no data"
\* condition; a search after an upload with a non-empty term that matches no
\* row fails with the "no results" condition; the two differ.
C4_SearchNoDataVsNoResults ==
    /\ NoDataError # NoResultsError
    /\ resp.op = "search" =>
        /\ ~Loaded => (Failed(resp) /\ resp.error = NoDataError)
        /\ (Loaded /\ strip(resp.request) # <<>> /\ ~MatchesSomeRow(resp.request))
            => (Failed(resp) /\ resp.error = NoResultsError)

\* C5: a lookup succeeds exactly when a table is loaded and the position is
\* one of its rows; otherwise it fails with the no-data or not-found condition.
C5_LookupInRange ==
    resp.op = "get_employee" =>
        IF Loaded /\ resp.request < Rows THEN Succeeded(resp)
        ELSE /\ Failed(resp)
             /\ resp.error = IF Loaded THEN "Khong tim thay nhan vien"
                             ELSE "Chua upload du lieu"

HasCredentials == EMAIL_CONFIG.sender_email # "" /\ EMAIL_CONFIG.sender_password # ""

\* the row at position p has an email value that is present and contains "@"
HasEmail(p) ==
    LET df_info == data_store.thong_tin
        email_col == find_employee_email_column(df_info)
    IN  email_col # 0 /\ IsValidEmail(df_info.rows[p + 1][email_col])

\* C6: a bulk send over in-range positions, with credentials set and a
\* transport that accepts every message, counts as successes the listed
\* positions with an email value containing "@", as failures the others, and
\* leaves an email-status entry for every listed position.
C6_BulkSendCounts ==
    LET indices == resp.request.indices
        listed == 1..Len(indices)
    IN  (/\ resp.op = "send_email_bulk" /\ resp.request.body = "json"
         /\ Loaded /\ indices # <<>>
         /\ \A i \in listed : indices[i] \in 0..(Rows - 1)
         /\ HasCredentials /\ resp.request.rejected = {})
        => /\ Succeeded(resp)
           /\ resp.success_count = Cardinality({i \in listed : HasEmail(indices[i])})
           /\ resp.fail_count = Cardinality({i \in listed : ~HasEmail(indices[i])})
           /\ \A i \in listed : indices[i] \in DOMAIN data_store.email_status

\* C7: a bulk send reports every listed row position in its per-row
\* breakdown, and a bulk export delivers its archive, whatever happened at an
\* earlier position of the list.
C7_BulkPositionsIndependent ==
    /\ (resp.op = "send_email_bulk" /\ resp.request.body = "json" /\ Loaded)
        => /\ Succeeded(resp)
           /\ \A p \in Listed(resp.request, data_store.thong_tin) :
                 p < Rows => \E k \in 1..Len(resp.results) : resp.results[k].index = p
    /\ (resp.op = "export_bulk" /\ Loaded)
        => /\ Succeeded(resp)
           /\ \A p \in Listed([indices |-> resp.request], data_store.thong_tin) :
                 p < Rows => \E k \in 1..Len(resp.entries) : resp.entries[k].index = p

\* the message of a send's answer
Outcome(r) == IF "message" \in DOMAIN r THEN r.message ELSE r.error

\* C8: after a send for a row position the email-status map holds an entry
\* for that position, and the entry tells the outcome of that send.
C8_OneEntryPerAttempt ==
    /\ (resp.op = "send_email" /\ Loaded /\ resp.request < Rows)
        => /\ resp.http = 200
           /\ resp.request \in DOMAIN data_store.email_status
           /\ data_store.email_status[resp.request].success = resp.success
           /\ data_store.email_status[resp.request].message = Outcome(resp)
    /\ (resp.op = "send_email_bulk" /\ Succeeded(resp))
        => \A k \in 1..Len(resp.results) :
              /\ resp.results[k].index \in DOMAIN data_store.email_status
              /\ (\A later \in (k + 1)..Len(resp.results) :
                     resp.results[later].index # resp.results[k].index)
                  => /\ data_store.email_status[resp.results[k].index].success
                          = resp.results[k].success
                     /\ data_store.email_status[resp.results[k].index].message
                          = resp.results[k].message

StatusComponents == {"sent", "success", "message", "time", "month", "year"}

\* C9: every entry of the email-status map carries the attempted flag, the
\* succeeded flag, the message, the timestamp and the target month and year.
C9_StatusHasFiveComponents ==
    \A p \in DOMAIN data_store.email_status :
        DOMAIN data_store.email_status[p] = StatusComponents

\* C10: in every slip, the total of deductions is social insurance plus
\* union fee plus tax, the total income is the actual salary, and the net pay
\* is the total income minus the total of deductions.
C10_SlipArithmetic ==
    resp.op = "slip" =>
        /\ resp.slip.tong_khoan_tru
             = resp.slip.bhxh + resp.slip.doan_phi + resp.slip.thue_tncn
        /\ resp.slip.tong_thu_nhap = resp.slip.luong_thuc_te
        /\ resp.slip.luong_thuc_nhan = resp.slip.tong_thu_nhap - resp.slip.tong_khoan_tru

\* the example of the specification
C10_Witness ==
    /\ resp.op = "slip"
    /\ resp.slip.bhxh = 1000000 /\ resp.slip.doan_phi = 50000
    /\ resp.slip.thue_tncn = 200000 /\ resp.slip.luong_thuc_te = 5000000
    /\ resp.slip.tong_khoan_tru = 1250000
    /\ resp.slip.luong_thuc_nhan = 3750000

\* C11: an export for a row position of the loaded table that no salary
\* record matches (no salary table, no name column in one of the tables, or
\* no salary row of an equal normalised name) does not fail, and the slip it
\* shows has agreed, base and actual salary, the three deductions and the
\* three totals all 0.
C11_NoSalaryRecordGivesZeros ==
    LET slip == resp.slip
    IN  (/\ resp.op = "export" /\ Loaded /\ resp.request < Rows
         /\ slip_salary_row(data_store.thong_tin, data_store.luong, resp.request) = 0)
        => /\ Succeeded(resp)
           /\ slip.luong_thoa_thuan = 0 /\ slip.luong_dong = 0
           /\ slip.luong_thuc_te = 0 /\ slip.bhxh = 0 /\ slip.doan_phi = 0
           /\ slip.thue_tncn = 0 /\ slip.tong_khoan_tru = 0
           /\ slip.tong_thu_nhap = 0 /\ slip.luong_thuc_nhan = 0

\* C12: an employee is joined to a salary record exactly when their name
\* fields are equal after trimming and lowercasing both sides, and the first
\* such salary row in table order is the one used, by the export and by the
\* lookup alike.
C12_NameMatchingJoin ==
    LET employee_name == resp.request.df_info.rows[1][1]
        df_luong == resp.request.df_luong
        equal(a, b) ==
            \/ ~notna(a) /\ ~notna(b)
            \/ notna(a) /\ notna(b) /\ strip(lower(a.s)) = strip(lower(b.s))
        matching == {r \in 1..Len(df_luong.rows) :
                        equal(employee_name, df_luong.rows[r][1])}
        expected == IF matching = {} THEN 0
                    ELSE CHOOSE r \in matching : \A k \in matching : r <= k
    IN  resp.op = "join"
        => /\ resp.export = expected
           /\ ~resp.lookup.raised
           /\ "salary" \in DOMAIN resp.lookup.data <=> expected # 0
           /\ expected # 0
              => resp.lookup.data.salary = row_info(df_luong, df_luong.rows[expected])

\* C13: with an identifier column ("STT") in the table, the rows kept are
\* exactly those whose identifier coerces to a number >= 1, in their original
\* order and at the contiguous positions 0..n-1; the identifier is held as
\* that number and the rest of each row is untouched.
C13_IdentifierFiltering ==
    LET ids == resp.request
        rows == resp.result.df.rows
        value(v) == v.n
        keeps(i) == ids[i].t = "num" /\ value(ids[i]) >= 1
        kept == SelectSeq([i \in 1..Len(ids) |-> i], keeps)
        letters == <<"a", "b", "c", "d", "e", "f", "g">>
    IN  resp.op = "filter"
        => /\ ~resp.result.raised
           /\ Len(rows) = Len(kept)
           /\ \A k \in 1..Len(kept) :
                 /\ rows[k][1].t = "num"
                 /\ rows[k][1].n = value(ids[kept[k]])
                 /\ rows[k][2] = StrCell(<<"r", letters[kept[k]]>>)

\* the identifiers 1, 2, "x", 0, 3 leave the rows of 1, 2, 3 at positions
\* 0, 1, 2
C13_Witness ==
    /\ resp.op = "filter"
    /\ resp.request = <<IntCell(1), IntCell(2), StrCell(<<"x">>), IntCell(0), IntCell(3)>>
    /\ Len(resp.result.df.rows) = 3
    /\ \A k \in 1..3 : resp.result.df.rows[k][1].n = k
    /\ resp.result.df.rows[3][2] = StrCell(<<"r", "e">>)

\* C14: the header merge with carry-forward.  A header cell contributes its
\* trimmed text unless it is empty, starts with the placeholder prefix
\* "Unnamed" or parses as a number.  At every column position the combined
\* name is "{top} - {sub}" when the sub-level contributes and a top-level text
\* is at hand (the column's own, else the last one contributed to its left),
\* the single contributing text when only one level has any, and "_Col_{i}"
\* when neither has.
C14_HeaderMergeWithCarryForward ==
    resp.op = "merge" =>
        LET top == resp.request.main_headers
            sub == resp.request.sub_headers
            contributes(cell) ==
                /\ notna(cell)
                /\ ~StartsWith(cell.s, <<"U", "n", "n", "a", "m", "e", "d">>)
                /\ strip(cell.s) # <<>>
                /\ ~FloatOk(strip(cell.s))
            seen(i) == {j \in 1..i : contributes(top[j])}
            last(js) == strip(top[CHOOSE j \in js : \A k \in js : k <= j].s)
            name(i) ==
                IF contributes(sub[i]) /\ seen(i) # {}
                THEN last(seen(i)) \o <<" ", "-", " ">> \o strip(sub[i].s)
                ELSE IF contributes(sub[i]) THEN strip(sub[i].s)
                ELSE IF contributes(top[i]) THEN strip(top[i].s)
                ELSE <<"_", "C", "o", "l", "_">> \o IntToStr(i - 1)
        IN  /\ Len(resp.result) = Len(top)
            /\ \A i \in 1..Len(top) : resp.result[i] = name(i)

\* column names put to is_valid_column: placeholders, blank and numeric names,
\* and names of text
ColumnNames ==
    { <<"_", "C", "o", "l", "_", "0">>, <<"_", "C", "o", "l", "_", "1", "2">>,
      <<" ", "_", "C", "o", "l", "_", "3">>, <<>>, <<" ">>, <<"0">>, <<"7">>,
      <<"3", ".", "5">>, <<"-", "2">>, <<" ", "1", "2", " ">>,
      <<"E", "m", "a", "i", "l">>, <<"0", " ", "-", " ", "x">> }

\* C15: placeholder exclusion.  is_valid_column is false for every name of the
\* placeholder shape "_Col_{i}" and for every blank or purely numeric name, and
\* in every reachable state no such name is in a column list handed out: the
\* column lists of an upload's answer, the stored column lists, and the keys of
\* the info and salary records of a lookup or a search.
C15_PlaceholderExclusion ==
    LET excluded(name) ==
            \/ StartsWith(strip(name), <<"_", "C", "o", "l", "_">>)
            \/ strip(name) = <<>>
            \/ FloatOk(strip(name))
        range(list) == {list[i] : i \in DOMAIN list}
        keys(pairs) == {pairs[i][1] : i \in DOMAIN pairs}
        record_keys(data) ==
            keys(data.info)
            \cup (IF "salary" \in DOMAIN data THEN keys(data.salary) ELSE {})
        answered ==
            IF resp.op = "upload" /\ resp.success
            THEN range(resp.columns_info) \cup range(resp.columns_luong)
            ELSE IF resp.op = "get_employee" /\ "result" \in DOMAIN resp
            THEN record_keys(resp.result)
            ELSE IF resp.op = "search" /\ "results" \in DOMAIN resp
            THEN UNION {record_keys(resp.results[i]) : i \in DOMAIN resp.results}
            ELSE {}
        stored == range(data_store.columns_thong_tin)
                  \cup range(data_store.columns_luong)
    IN  /\ \A name \in ColumnNames \cup range(data_store.thong_tin.cols)
                       \cup range(data_store.luong.cols) :
               excluded(name) => ~is_valid_column(name)
        /\ \A name \in answered \cup stored : ~excluded(name)

\* a table whose columns kept the numbered labels of the raw sheet is loaded,
\* and the lookup of its first row answers with no key at all
C15_Witness ==
    /\ Loaded
    /\ \E j \in DOMAIN data_store.thong_tin.cols : FloatOk(data_store.thong_tin.cols[j])
    /\ data_store.columns_thong_tin = <<>>
    /\ resp.op = "get_employee"
    /\ Succeeded(resp)
    /\ resp.result.info = <<>>

\* C16: column names are unique within every normalized table: no two columns
\* of a stored employee-info or salary table carry the same name.
C16_ColumnNamesUnique ==
    LET unique(cols) ==
            \A i \in DOMAIN cols : \A j \in DOMAIN cols : cols[i] = cols[j] => i = j
    IN  unique(data_store.thong_tin.cols) /\ unique(data_store.luong.cols)

\* C17: number formatting for display.  None and 0 render as the empty text;
\* any other value renders as the nearest whole number, a half rounded up
\* (a whole number as itself), written in digits with a "." before every group
\* of three digits counted from the right and no decimal part, so 1234567 gives
\* "1.234.567" and 1234.5 gives "1.235".
C17_NumberFormatting ==
    resp.op = "format" =>
        LET val == resp.request
            out == resp.result
            whole(q) == (q + 2) \div 4
            shown(n, body) ==
                /\ out = (IF n < 0 THEN <<"-">> ELSE <<>>) \o body
                /\ remove_dots(body) = NatToStr(IF n < 0 THEN 0 - n ELSE n)
                /\ \A i \in 1..Len(body) :
                       body[i] = "." <=> (Len(body) - i + 1) % 4 = 0
        IN  IF val = PyNone THEN out = <<>>
            ELSE IF val.q = 0 THEN out = <<>>
            ELSE shown(whole(val.q), Unsigned(out))

\* C18: a search with a non-empty term on a loaded table returns exactly the
\* rows in which some semantic column has a non-empty value that contains the
\* term, both lowercased, as literal text; the rows are listed by ascending
\* row position, and when there is no such row the search fails.
C18_SearchLiteralSubstring ==
    (resp.op = "search" /\ Loaded /\ strip(resp.request) # <<>>) =>
        LET df_info == data_store.thong_tin
            term == lower(strip(resp.request))
            hit(row) ==
                \E j \in 1..Len(df_info.cols) :
                    /\ is_valid_column(df_info.cols[j])
                    /\ notna(row[j])
                    /\ Contains(lower(row[j].s), term)
            expected == SelectSeq([i \in 1..Len(df_info.rows) |-> i - 1],
                                  LAMBDA p : hit(df_info.rows[p + 1]))
        IN  IF expected = <<>> THEN Failed(resp)
            ELSE /\ Succeeded(resp)
                 /\ [i \in 1..Len(resp.results) |-> resp.results[i].index] = expected

\* C19: find_column_by_keywords takes the keyword list order as the priority
\* order.  It returns none when no column name contains any keyword, and
\* otherwise the first column, in table order, whose lowercased name contains
\* the first keyword of the list that any column name contains; so with an
\* earlier column holding only the second keyword and a later column holding
\* the first, it returns the later column.
C19_KeywordOrderIsPriority ==
    resp.op = "find" =>
        LET columns == resp.request.columns
            keywords == resp.request.keywords
            holding(k) == {j \in 1..Len(columns) :
                              Contains(lower(columns[j]), lower(keywords[k]))}
            found == {k \in 1..Len(keywords) : holding(k) # {}}
            least(set) == CHOOSE x \in set : \A y \in set : x <= y
        IN  IF found = {} THEN resp.result = 0
            ELSE resp.result = least(holding(least(found)))

\* C20: in the slip calculator the first satisfying column wins per field:
\* when two columns of the salary record satisfy the base-salary rule and both
\* have a non-empty value, the base salary of the slip is the value of the
\* column that comes first in column order.
C20_FirstSatisfyingColumnWins ==
    (resp.op = "base" /\ notna(resp.request[2]) /\ notna(resp.request[3])) =>
        resp.slip.luong_dong = num_val(resp.request[2])

\* C21: data rows start two rows below the header row, and the row there is
\* skipped as well exactly when its first three non-empty cells exist and are
\* all pure-digit strings; a row with a cell that stringifies with a decimal
\* point, or with a text, among them is kept as a data row.
C21_DataRowsStart ==
    resp.op = "start" =>
        LET filled == SelectSeq(resp.request, notna)
            checked == SubSeq(filled, 1, IF Len(filled) < 3 THEN Len(filled) ELSE 3)
            index_row == /\ checked # <<>>
                         /\ \A k \in 1..Len(checked) : isdigit(checked[k].s)
        IN  resp.result = IF index_row THEN 3 ELSE 2

\* C22: a sheet with a recognised name and no header marker in its first rows
\* is returned as it was read: the same columns and the same rows, entirely
\* empty rows included, at the same row positions.
C22_NoHeaderReturnsRawGrid ==
    resp.op = "raw" =>
        /\ ~resp.result.raised
        /\ resp.result.df.cols = read_excel(resp.request).cols
        /\ resp.result.df.rows = resp.request

\* C23: a header cell whose text starts with the placeholder prefix "Unnamed"
\* or parses as a number, the cell 0 included, contributes no header text: the
\* combined names are those of the same two header rows with every such cell
\* emptied, so its text is in no combined name and is never carried forward.
C23_PlaceholderAndNumberCellsContributeNothing ==
    resp.op = "merge" =>
        LET silent(cell) ==
                /\ notna(cell)
                /\ \/ StartsWith(cell.s, <<"U", "n", "n", "a", "m", "e", "d">>)
                   \/ FloatOk(strip(cell.s))
            emptied(cells) ==
                [j \in 1..Len(cells) |-> IF silent(cells[j]) THEN NaN ELSE cells[j]]
        IN  resp.result = combined_headers(emptied(resp.request.main_headers),
                                           emptied(resp.request.sub_headers), 1, <<>>)

\* C24: in every reachable state every key of the email-status map is a row
\* position of the employee-info table that is loaded: 0 <= key < number of
\* rows.
C24_StatusKeysAreRowPositions ==
    \A key \in DOMAIN data_store.email_status :
        Loaded /\ 0 <= key /\ key < Rows

\* C25: for an employee of a loaded directory, the salary record that the
\* lookup shows is the record that the export uses for the slip: either both
\* have none, or the lookup shows the values of the very salary row the export
\* joins; also when the employee's name cell is empty.
C25_LookupAndExportUseSameRecord ==
    resp.op = "join" =>
        LET df_luong == resp.request.df_luong
            used == resp.export
            shown == resp.lookup
        IN  /\ ~shown.raised
            /\ ("salary" \in DOMAIN shown.data) <=> (used # 0)
            /\ used # 0 /\ "salary" \in DOMAIN shown.data
                  => shown.data.salary = row_info(df_luong, df_luong.rows[used])

\* C26: a bulk export over distinct in-range row positions answers with an
\* archive that holds one document per listed position, in the order listed,
\* under entry names that differ pairwise; also when two employees have the
\* same name, or the same name once sanitized for the file name.
C26_ArchiveEntryNamesDistinct ==
    resp.op = "archive" =>
        /\ Succeeded(resp.result)
        /\ [k \in 1..Len(resp.result.entries) |-> resp.result.entries[k].index] = <<0, 1>>
        /\ \A i \in 1..Len(resp.result.entries) :
              \A j \in 1..Len(resp.result.entries) :
                  resp.result.entries[i].filename = resp.result.entries[j].filename
                      => i = j

=========================================================================
